---- MODULE Spec2Model ----
(***************************************************************************)
(* A model of MicroBitTouchDevelop.h: the handler registry built on the    *)
(* DAL message bus (registerWithDal, handlersMap, DalAdapter) and the      *)
(* bounds-checked collection library (create::collection_of and namespace  *)
(* collection).                                                            *)
(*                                                                         *)
(* registerWithDal is modelled statement by statement, because the bus may *)
(* deliver an event between any two of its statements.  The collection     *)
(* functions run to completion and are one action each.                    *)
(***************************************************************************)
EXTENDS Integers, Sequences, FiniteSets, TLC

\* ---------------------------------------------------------------------------
\* Bounds of the model
\* ---------------------------------------------------------------------------

\* number of distinct callable targets per closure shape
NumFns == 2
\* event payloads range over 0..MaxPayload
MaxPayload == 1
\* longest vector a collection grows to
MaxLen == 3
\* number of distinct element values stored in a collection
NumElems == 3
\* number of Ref handle variables of the program
MaxHandles == 3
\* values stored in a Ref cell range over 0..MaxValue
MaxValue == 2
\* longest record of closure invocations kept
MaxInvoked == 3

\* ---------------------------------------------------------------------------
\* Program constants
\* ---------------------------------------------------------------------------

TD_UNINITIALIZED_OBJECT_TYPE == 40
TD_OUT_OF_BOUNDS == 41

\* ---------------------------------------------------------------------------
\* Value spaces
\* ---------------------------------------------------------------------------

\* the (id, event) pairs handlers are registered for
Keys == {<<1, 2>>, <<5, 9>>}

\* heap addresses a DalAdapter can be allocated at; at most one adapter per
\* key is owned by the table, plus the one under construction
Addrs == 1..(Cardinality(Keys) + 1)

Payloads == 0..MaxPayload

\* T of registerWithDal: std::function<void()> or std::function<void(int)>;
\* target 0 is the empty function
Shapes == {"Action", "Action1"}
Handlers == [shape : Shapes, target : 0..NumFns]

\* f != NULL
NotNull(f) == f.target # 0

Elems == {10 * i : i \in 1..NumElems}
Indices == (0 - 1)..(MaxLen + 1)

\* the program's variables of type Ref<Number>, and the heap cells behind them
RefHandles == 1..MaxHandles
CellAddrs == 1..MaxHandles
RefValues == 0..MaxValue

\* Action1<Number>: the one-argument closures, the empty one included
Action1s == {f \in Handlers : f.shape = "Action1"}

VARIABLES
  handlersMap,   \* the global table: a function from the registered keys to adapter addresses
  bus,           \* uBit.MessageBus: for each key the set of adapters listening
  heap,          \* the DalAdapter objects alive: address -> wrapped closure (impl_)
  pc,            \* position of the main context inside registerWithDal
  regKey,        \* arguments (id, event) of the current or last registerWithDal
  regF,          \* argument f of the current or last registerWithDal
  old_adapter,   \* the adapter found in the table, 0 for handlersMap.end()
  new_adapter,   \* the adapter allocated by this call, 0 before the allocation
  regLog,        \* history: the bus and heap operations of the current or last call
  lastDispatch,  \* history: the last event delivered and the closures it invoked
  coll,          \* a Collection_of<Number> handle: [valid, items]
  call,          \* history: the last collection operation, its arguments and result
  panicCode,     \* 0 while running, else the code uBit.panic halted with
  registered,    \* history: for each key the handler of the last completed registration
  refHandles,    \* for each Ref variable the cell it points to, 0 when it holds no Ref
  cells,         \* the cells alive: address -> [val, ref], the T object and *ref
  refCall,       \* history: the last Ref operation, its arguments and result
  invoked,       \* the invocations of one-argument closures, in order
  actCall        \* history: the last action1 operation, its arguments and result

regVars == <<handlersMap, bus, heap, pc, regKey, regF, old_adapter, new_adapter, regLog,
             registered>>
collVars == <<coll, call>>
libVars == <<refHandles, cells, refCall, invoked, actCall>>
vars == <<handlersMap, bus, heap, pc, regKey, regF, old_adapter, new_adapter,
          regLog, lastDispatch, coll, call, panicCode, registered,
          refHandles, cells, refCall, invoked, actCall>>

\* uBit.panic never returns: nothing runs once a code is set
Running == panicCode = 0

\* a default-constructed ManagedType handle: no object behind it
Uninitialized == [valid |-> FALSE, items |-> <<>>]

NoCall == [op |-> "none", pre |-> Uninitialized, x |-> 0, v |-> 0,
           retN |-> 0, retB |-> FALSE, signal |-> 0]

NoDispatch == [key |-> <<0, 0>>, payload |-> 0, calls |-> {}]

\* the empty std::function
NoHandler == [shape |-> "Action", target |-> 0]

NoRefCall == [op |-> "none", h |-> 0, v |-> 0, ret |-> 0,
              pre |-> [a \in {} |-> 0], preHandles |-> [h \in RefHandles |-> 0]]

NoActCall == [op |-> "none", a |-> [shape |-> "Action1", target |-> 0], arg |-> 0,
              retB |-> FALSE, pre |-> <<>>]

Init ==
  /\ handlersMap = [k \in {} |-> 0]
  /\ bus = [k \in Keys |-> {}]
  /\ heap = [a \in {} |-> 0]
  /\ pc = "idle"
  /\ regKey = CHOOSE k \in Keys : TRUE
  /\ regF = NoHandler
  /\ old_adapter = 0
  /\ new_adapter = 0
  /\ regLog = <<>>
  /\ lastDispatch = NoDispatch
  /\ coll = Uninitialized
  /\ call = NoCall
  /\ panicCode = 0
  /\ registered = [k \in Keys |-> NoHandler]
  /\ refHandles = [h \in RefHandles |-> 0]
  /\ cells = [a \in {} |-> 0]
  /\ refCall = NoRefCall
  /\ invoked = <<>>
  /\ actCall = NoActCall

\* ---------------------------------------------------------------------------
\* DalAdapter
\* ---------------------------------------------------------------------------

\* The event record the bus hands to DalAdapter::run.
EventRecord(key, payload) ==
  [component_id |-> key[1], event_id |-> key[2], payload |-> payload]

\* A variant of ClosureCall that hands a void(int) closure the event id
\* instead of the integer the event carries.
ClosureCallEventId(f, e) ==
  [fn |-> f,
   args |-> IF f.shape = "Action1" THEN <<e.event_id>> ELSE <<>>,
   dangling |-> FALSE]

\* What impl_ does with an event: a closure of shape void(int) is called with
\* the integer carried by the event, a closure of shape void() with nothing.
ClosureCall(f, e) ==
  [fn |-> f,
   args |-> IF f.shape = "Action1" THEN <<e.payload>> ELSE <<>>,
   dangling |-> FALSE]

\* Calling run through a pointer to a deleted adapter is undefined: the
\* memory may hold any closure, called with or without an argument.
DanglingCalls(e) ==
  {[fn |-> f, args |-> ar, dangling |-> TRUE] :
     f \in Handlers, ar \in {<<>>, <<e.payload>>}}

\* DalAdapter::run(e) on the adapter at address a: the set of possible effects
DalAdapter_run(a, e) ==
  IF a \in DOMAIN heap THEN {ClosureCall(heap[a], e)} ELSE DanglingCalls(e)

\* ---------------------------------------------------------------------------
\* registerWithDal(id, event, f), one action per statement
\* ---------------------------------------------------------------------------

\* handlersMap.find({ id, event }), 0 standing for handlersMap.end()
Find(key) == IF key \in DOMAIN handlersMap THEN handlersMap[key] ELSE 0

\* A variant of RegisterWithDal that erases the table entry, deleting the old
\* adapter, before the bus is told to ignore it.
RegisterWithDalEraseFirst(key, f) ==
  /\ Running
  /\ pc = "idle"
  /\ regKey' = key
  /\ regF' = f
  /\ regLog' = <<>>
  /\ new_adapter' = 0
  /\ IF NotNull(f)
       THEN /\ old_adapter' = Find(key)
            /\ pc' = IF Find(key) # 0 THEN "ignore" ELSE "new"
            /\ heap' = [b \in DOMAIN heap \ {Find(key)} |-> heap[b]]
       ELSE /\ old_adapter' = 0
            /\ pc' = "idle"
            /\ heap' = heap
  /\ UNCHANGED <<handlersMap, bus, lastDispatch, registered, coll, call, panicCode, libVars>>

\* A variant of RegisterWithDal without the test f != NULL.
RegisterWithDalNoCheck(key, f) ==
  /\ Running
  /\ pc = "idle"
  /\ regKey' = key
  /\ regF' = f
  /\ regLog' = <<>>
  /\ new_adapter' = 0
  /\ old_adapter' = Find(key)
  /\ pc' = IF Find(key) # 0 THEN "ignore" ELSE "new"
  /\ UNCHANGED <<handlersMap, bus, heap, lastDispatch, registered, coll, call, panicCode, libVars>>

\* A variant of RegisterWithDal that takes an empty handler as the request to
\* remove the handler installed for the key.
RegisterWithDalNullRemoves(key, f) ==
  /\ Running
  /\ pc = "idle"
  /\ regKey' = key
  /\ regF' = f
  /\ regLog' = <<>>
  /\ new_adapter' = 0
  /\ IF NotNull(f)
       THEN /\ old_adapter' = Find(key)
            /\ pc' = IF Find(key) # 0 THEN "ignore" ELSE "new"
            /\ UNCHANGED <<handlersMap, bus, heap>>
       ELSE /\ old_adapter' = 0
            /\ pc' = "idle"
            /\ bus' = [bus EXCEPT ![key] = @ \ {Find(key)}]
            /\ handlersMap' = [k \in DOMAIN handlersMap \ {key} |-> handlersMap[k]]
            /\ heap' = [b \in DOMAIN heap \ {Find(key)} |-> heap[b]]
  /\ UNCHANGED <<lastDispatch, registered, coll, call, panicCode, libVars>>

\* Entry: the test f != NULL and the lookup of the previous adapter.
RegisterWithDal(key, f) ==
  /\ Running
  /\ pc = "idle"
  /\ regKey' = key
  /\ regF' = f
  /\ regLog' = <<>>
  /\ new_adapter' = 0
  /\ IF NotNull(f)
       THEN /\ old_adapter' = Find(key)
            /\ pc' = IF Find(key) # 0 THEN "ignore" ELSE "new"
       ELSE /\ old_adapter' = 0
            /\ pc' = "idle"
  /\ UNCHANGED <<handlersMap, bus, heap, lastDispatch, registered, coll, call, panicCode, libVars>>

\* A variant of Ignore that passes event and id in the wrong order, so that
\* the bus finds no such listener.
IgnoreSwappedArgs ==
  /\ Running
  /\ pc = "ignore"
  /\ bus' = [k \in Keys |-> IF k = <<regKey[2], regKey[1]>>
                              THEN bus[k] \ {old_adapter} ELSE bus[k]]
  /\ regLog' = Append(regLog, [op |-> "ignore", adapter |-> old_adapter])
  /\ pc' = "new"
  /\ UNCHANGED <<handlersMap, heap, regKey, regF, old_adapter, new_adapter,
                 lastDispatch, registered, coll, call, panicCode, libVars>>

\* A variant of Ignore that forgets the call to the bus.
IgnoreSkipped ==
  /\ Running
  /\ pc = "ignore"
  /\ pc' = "new"
  /\ UNCHANGED <<handlersMap, bus, heap, regKey, regF, old_adapter, new_adapter,
                 regLog, lastDispatch, registered, coll, call, panicCode, libVars>>

\* A variant of Ignore that deletes the old adapter right after detaching it.
IgnoreThenFree ==
  /\ Running
  /\ pc = "ignore"
  /\ bus' = [bus EXCEPT ![regKey] = @ \ {old_adapter}]
  /\ heap' = [b \in DOMAIN heap \ {old_adapter} |-> heap[b]]
  /\ regLog' = regLog \o <<[op |-> "ignore", adapter |-> old_adapter],
                            [op |-> "free", adapter |-> old_adapter]>>
  /\ pc' = "new"
  /\ UNCHANGED <<handlersMap, regKey, regF, old_adapter, new_adapter,
                 lastDispatch, registered, coll, call, panicCode, libVars>>

\* uBit.MessageBus.ignore(id, event, old_adapter->second.get(), &DalAdapter::run)
Ignore ==
  /\ Running
  /\ pc = "ignore"
  /\ bus' = [bus EXCEPT ![regKey] = @ \ {old_adapter}]
  /\ regLog' = Append(regLog, [op |-> "ignore", adapter |-> old_adapter])
  /\ pc' = "new"
  /\ UNCHANGED <<handlersMap, heap, regKey, regF, old_adapter, new_adapter,
                 lastDispatch, registered, coll, call, panicCode, libVars>>

\* A variant of New that wraps the closure as the other shape.
NewOtherShape ==
  /\ Running
  /\ pc = "new"
  /\ \E a \in Addrs \ DOMAIN heap :
       /\ new_adapter' = a
       /\ heap' = [b \in DOMAIN heap \cup {a} |->
                     IF b = a
                       THEN [regF EXCEPT !.shape = IF @ = "Action" THEN "Action1" ELSE "Action"]
                       ELSE heap[b]]
       /\ regLog' = Append(regLog, [op |-> "construct", adapter |-> a])
  /\ pc' = "listen"
  /\ UNCHANGED <<handlersMap, bus, regKey, regF, old_adapter,
                 lastDispatch, registered, coll, call, panicCode, libVars>>

\* DalAdapter* new_adapter = new DalAdapter(f): any address not in use
New ==
  /\ Running
  /\ pc = "new"
  /\ \E a \in Addrs \ DOMAIN heap :
       /\ new_adapter' = a
       /\ heap' = [b \in DOMAIN heap \cup {a} |-> IF b = a THEN regF ELSE heap[b]]
       /\ regLog' = Append(regLog, [op |-> "construct", adapter |-> a])
  /\ pc' = "listen"
  /\ UNCHANGED <<handlersMap, bus, regKey, regF, old_adapter,
                 lastDispatch, registered, coll, call, panicCode, libVars>>

\* A variant of Listen that attaches the adapter found in the table again
\* when there is one.
ListenOldAdapter ==
  /\ Running
  /\ pc = "listen"
  /\ bus' = [bus EXCEPT ![regKey] =
               @ \cup {IF old_adapter # 0 THEN old_adapter ELSE new_adapter}]
  /\ regLog' = Append(regLog, [op |-> "listen", adapter |-> new_adapter])
  /\ pc' = "store"
  /\ UNCHANGED <<handlersMap, heap, regKey, regF, old_adapter, new_adapter,
                 lastDispatch, registered, coll, call, panicCode, libVars>>

\* uBit.MessageBus.listen(id, event, new_adapter, &DalAdapter::run)
Listen ==
  /\ Running
  /\ pc = "listen"
  /\ bus' = [bus EXCEPT ![regKey] = @ \cup {new_adapter}]
  /\ regLog' = Append(regLog, [op |-> "listen", adapter |-> new_adapter])
  /\ pc' = "store"
  /\ UNCHANGED <<handlersMap, heap, regKey, regF, old_adapter, new_adapter,
                 lastDispatch, registered, coll, call, panicCode, libVars>>

\* A variant of Store that assigns a table holding the new entry alone, which
\* deletes the adapters of all the other keys.
StoreClearsOthers ==
  /\ Running
  /\ pc = "store"
  /\ handlersMap' = [k \in {regKey} |-> new_adapter]
  /\ heap' = [b \in {new_adapter} |-> heap[b]]
  /\ regLog' = Append(regLog, [op |-> "store", adapter |-> new_adapter])
  /\ registered' = [registered EXCEPT ![regKey] = regF]
  /\ pc' = "idle"
  /\ UNCHANGED <<bus, regKey, regF, old_adapter, new_adapter,
                 lastDispatch, coll, call, panicCode, libVars>>

\* handlersMap[{ id, event }] = unique_ptr<DalAdapter>(new_adapter): the move
\* assignment takes the new pointer and then deletes the adapter the entry
\* owned before, if any.
Store ==
  /\ Running
  /\ pc = "store"
  /\ handlersMap' = [k \in DOMAIN handlersMap \cup {regKey} |->
                       IF k = regKey THEN new_adapter ELSE handlersMap[k]]
  /\ IF regKey \in DOMAIN handlersMap
       THEN /\ heap' = [b \in DOMAIN heap \ {handlersMap[regKey]} |-> heap[b]]
            /\ regLog' = regLog \o <<[op |-> "store", adapter |-> new_adapter],
                                      [op |-> "free", adapter |-> handlersMap[regKey]]>>
       ELSE /\ heap' = heap
            /\ regLog' = Append(regLog, [op |-> "store", adapter |-> new_adapter])
  /\ registered' = [registered EXCEPT ![regKey] = regF]
  /\ pc' = "idle"
  /\ UNCHANGED <<bus, regKey, regF, old_adapter, new_adapter,
                 lastDispatch, coll, call, panicCode, libVars>>

\* ---------------------------------------------------------------------------
\* The bus delivers an event: every adapter listening on the key is run.  The
\* delivery comes from the bus's own context, at any point of registerWithDal.
\* ---------------------------------------------------------------------------

Deliver(key, payload) ==
  /\ Running
  /\ \E outs \in [bus[key] -> UNION {DalAdapter_run(a, EventRecord(key, payload)) : a \in bus[key]}] :
       /\ \A a \in bus[key] : outs[a] \in DalAdapter_run(a, EventRecord(key, payload))
       /\ lastDispatch' = [key |-> key, payload |-> payload,
                           calls |-> {[adapter |-> a, call |-> outs[a]] : a \in bus[key]}]
  /\ UNCHANGED <<regVars, coll, call, panicCode, libVars>>

NextReg ==
  \/ \E key \in Keys, f \in Handlers : RegisterWithDal(key, f)
  \/ Ignore
  \/ New
  \/ Listen
  \/ Store
  \/ \E key \in Keys, payload \in Payloads : Deliver(key, payload)

SpecReg == Init /\ [][NextReg]_vars

\* ---------------------------------------------------------------------------
\* create::collection_of and namespace collection, for T = Number.
\* Each function is an operator from the handle (and arguments) to its
\* outcome: the handle's contents afterwards, the value returned, and the
\* code passed to uBit.panic (0 when the function returns).
\* ---------------------------------------------------------------------------

Outcome(c, n, b, sig) == [c |-> c, retN |-> n, retB |-> b, signal |-> sig]

\* return ManagedType<vector<T>>(new vector<T>())
collection_of == [valid |-> TRUE, items |-> <<>>]

count(c) ==
  IF c.valid
    THEN Outcome(c, Len(c.items), FALSE, 0)
    ELSE Outcome(c, 0, FALSE, TD_UNINITIALIZED_OBJECT_TYPE)

\* A variant of add that inserts at the front.
addFront(c, x) ==
  IF c.valid
    THEN Outcome([c EXCEPT !.items = <<x>> \o @], 0, FALSE, 0)
    ELSE Outcome(c, 0, FALSE, TD_UNINITIALIZED_OBJECT_TYPE)

add(c, x) ==
  IF c.valid
    THEN Outcome([c EXCEPT !.items = Append(@, x)], 0, FALSE, 0)
    ELSE Outcome(c, 0, FALSE, TD_UNINITIALIZED_OBJECT_TYPE)

\* A variant of in_range with an inclusive upper bound.
in_rangeInclusive(c, x) ==
  IF c.valid
    THEN Outcome(c, 0, 0 <= x /\ x <= Len(c.items), 0)
    ELSE Outcome(c, 0, FALSE, TD_UNINITIALIZED_OBJECT_TYPE)

\* 0 <= x && x < c->size(): the right operand is only evaluated for x >= 0,
\* where the conversion of x to the unsigned size type keeps its value
in_range(c, x) ==
  IF c.valid
    THEN Outcome(c, 0, 0 <= x /\ x < Len(c.items), 0)
    ELSE Outcome(c, 0, FALSE, TD_UNINITIALIZED_OBJECT_TYPE)

\* the vector's element at the 0-based index x
ElemAt(items, x) == items[x + 1]

\* A variant of at that tests the index without asking in_range, so that an
\* uninitialized handle counts as an index out of bounds.
atOwnTest(c, x) ==
  IF c.valid /\ 0 <= x /\ x < Len(c.items)
    THEN Outcome(c, ElemAt(c.items, x), FALSE, 0)
    ELSE Outcome(c, 0, FALSE, TD_OUT_OF_BOUNDS)

at(c, x) ==
  LET r == in_range(c, x) IN
    IF r.signal # 0 THEN r
    ELSE IF r.retB THEN Outcome(c, ElemAt(c.items, x), FALSE, 0)
    ELSE Outcome(c, 0, FALSE, TD_OUT_OF_BOUNDS)

\* A variant of Erase that removes the element before the one asked for.
ErasePrevious(items, x) ==
  [i \in 1..(Len(items) - 1) |-> IF i < x THEN items[i] ELSE items[i + 1]]

\* c->erase(c->begin()+x)
Erase(items, x) ==
  [i \in 1..(Len(items) - 1) |-> IF i <= x THEN items[i] ELSE items[i + 1]]

\* A variant of remove_at that tests the handle itself and returns quietly
\* when there is no object behind it.
remove_atSilent(c, x) ==
  IF ~c.valid \/ ~(0 <= x /\ x < Len(c.items))
    THEN Outcome(c, 0, FALSE, 0)
    ELSE Outcome([c EXCEPT !.items = Erase(@, x)], 0, FALSE, 0)

remove_at(c, x) ==
  LET r == in_range(c, x) IN
    IF r.signal # 0 THEN r
    ELSE IF ~r.retB THEN Outcome(c, 0, FALSE, 0)
    ELSE Outcome([c EXCEPT !.items = Erase(@, x)], 0, FALSE, 0)

\* A variant of set_at that is as strict as at.
set_atStrict(c, x, y) ==
  LET r == in_range(c, x) IN
    IF r.signal # 0 THEN r
    ELSE IF ~r.retB THEN Outcome(c, 0, FALSE, TD_OUT_OF_BOUNDS)
    ELSE Outcome([c EXCEPT !.items[x + 1] = y], 0, FALSE, 0)

set_at(c, x, y) ==
  LET r == in_range(c, x) IN
    IF r.signal # 0 THEN r
    ELSE IF ~r.retB THEN Outcome(c, 0, FALSE, 0)
    ELSE Outcome([c EXCEPT !.items[x + 1] = y], 0, FALSE, 0)

\* A variant of the loop that stops at the first match.
RECURSIVE IndexOfLoopFirst(_, _, _, _)
IndexOfLoopFirst(items, x, i, index) ==
  IF i < Len(items)
    THEN IF ElemAt(items, i) = x THEN i
         ELSE IndexOfLoopFirst(items, x, i + 1, index)
    ELSE index

\* for (int i = start; i < c->size(); ++i) if (c->at(i) == x) index = i;
RECURSIVE IndexOfLoop(_, _, _, _)
IndexOfLoop(items, x, i, index) ==
  IF i < Len(items)
    THEN IndexOfLoop(items, x, i + 1, IF ElemAt(items, i) = x THEN i ELSE index)
    ELSE index

index_of(c, x, start) ==
  LET r == in_range(c, start) IN
    IF r.signal # 0 THEN r
    ELSE IF ~r.retB THEN Outcome(c, 0 - 1, FALSE, 0)
    ELSE Outcome(c, IndexOfLoop(c.items, x, start, 0 - 1), FALSE, 0)

\* A variant of remove that removes the first match.
removeFirstMatch(c, x) ==
  LET r == index_of(c, x, 0) IN
    IF r.signal # 0 THEN r
    ELSE remove_at(c, IndexOfLoopFirst(c.items, x, 0, 0 - 1))

\* A variant of remove that reads the element at the index found before it
\* removes it, as at does.
removeStrict(c, x) ==
  LET r == index_of(c, x, 0) IN
    IF r.signal # 0 THEN r
    ELSE IF at(c, r.retN).signal # 0 THEN at(c, r.retN)
    ELSE remove_at(c, r.retN)

remove(c, x) ==
  LET r == index_of(c, x, 0) IN
    IF r.signal # 0 THEN r ELSE remove_at(c, r.retN)

\* One call of a collection function on the handle coll.
Invoke(op, x, v, r) ==
  /\ Running
  /\ coll' = r.c
  /\ call' = [op |-> op, pre |-> coll, x |-> x, v |-> v,
              retN |-> r.retN, retB |-> r.retB, signal |-> r.signal]
  /\ panicCode' = r.signal
  /\ UNCHANGED <<regVars, lastDispatch, libVars>>

\* the handle is assigned the result of create::collection_of
CollectionOf == Invoke("collection_of", 0, 0, Outcome(collection_of, 0, FALSE, 0))

Count == Invoke("count", 0, 0, count(coll))

Add(v) ==
  /\ Len(coll.items) < MaxLen
  /\ Invoke("add", 0, v, add(coll, v))

InRange(x) == Invoke("in_range", x, 0, in_range(coll, x))

At(x) == Invoke("at", x, 0, at(coll, x))

RemoveAt(x) == Invoke("remove_at", x, 0, remove_at(coll, x))

SetAt(x, v) == Invoke("set_at", x, v, set_at(coll, x, v))

IndexOf(v, start) == Invoke("index_of", start, v, index_of(coll, v, start))

Remove(v) == Invoke("remove", 0, v, remove(coll, v))

NextColl ==
  \/ CollectionOf
  \/ Count
  \/ \E v \in Elems : Add(v)
  \/ \E x \in Indices : InRange(x)
  \/ \E x \in Indices : At(x)
  \/ \E x \in Indices : RemoveAt(x)
  \/ \E x \in Indices, v \in Elems : SetAt(x, v)
  \/ \E v \in Elems, start \in Indices : IndexOf(v, start)
  \/ \E v \in Elems : Remove(v)

SpecColl == Init /\ [][NextColl]_vars

\* ---------------------------------------------------------------------------
\* Ref<T>, create::ref_of and namespace ref, for T = Number.
\* ---------------------------------------------------------------------------

\* Ref<T>::Ref(): object = new T(), a value-initialized T, and *ref = 1
Ref == [val |-> 0, ref |-> 1]

\* *(x.get())
_get(cs, c) == cs[c].val

\* A variant of _set that assigns to a copy of the object.
_setCopy(cs, c, y) == cs

\* *(x.get()) = y
_set(cs, c, y) == [cs EXCEPT ![c].val = y]

RefInvoke(op, h, v, ret) ==
  refCall' = [op |-> op, h |-> h, v |-> v, ret |-> ret,
              pre |-> cells, preHandles |-> refHandles]

\* a Ref variable is initialized from create::ref_of
RefOf(h) ==
  /\ Running
  /\ refHandles[h] = 0
  /\ \E c \in CellAddrs \ DOMAIN cells :
       /\ cells' = [a \in DOMAIN cells \cup {c} |-> IF a = c THEN Ref ELSE cells[a]]
       /\ refHandles' = [refHandles EXCEPT ![h] = c]
  /\ RefInvoke("ref_of", h, 0, 0)
  /\ UNCHANGED <<regVars, lastDispatch, collVars, panicCode, invoked, actCall>>

\* a Ref variable is initialized as a copy of another: one more holder
CopyRef(h, h2) ==
  /\ Running
  /\ refHandles[h] # 0
  /\ refHandles[h2] = 0
  /\ refHandles' = [refHandles EXCEPT ![h2] = refHandles[h]]
  /\ cells' = [cells EXCEPT ![refHandles[h]].ref = @ + 1]
  /\ RefInvoke("copy", h, 0, 0)
  /\ UNCHANGED <<regVars, lastDispatch, collVars, panicCode, invoked, actCall>>

\* a Ref variable goes out of scope: the last holder frees the cell
DropRef(h) ==
  /\ Running
  /\ refHandles[h] # 0
  /\ refHandles' = [refHandles EXCEPT ![h] = 0]
  /\ cells' = IF cells[refHandles[h]].ref = 1
                THEN [a \in DOMAIN cells \ {refHandles[h]} |-> cells[a]]
                ELSE [cells EXCEPT ![refHandles[h]].ref = @ - 1]
  /\ RefInvoke("drop", h, 0, 0)
  /\ UNCHANGED <<regVars, lastDispatch, collVars, panicCode, invoked, actCall>>

\* ref::_get(x); the by-value parameter is a holder for the time of the call
Get(h) ==
  /\ Running
  /\ refHandles[h] # 0
  /\ RefInvoke("_get", h, 0, _get(cells, refHandles[h]))
  /\ UNCHANGED <<regVars, lastDispatch, collVars, panicCode, refHandles, cells,
                 invoked, actCall>>

\* ref::_set(x, y)
Set(h, y) ==
  /\ Running
  /\ refHandles[h] # 0
  /\ cells' = _set(cells, refHandles[h], y)
  /\ RefInvoke("_set", h, y, 0)
  /\ UNCHANGED <<regVars, lastDispatch, collVars, panicCode, refHandles,
                 invoked, actCall>>

NextRef ==
  \/ \E h \in RefHandles : RefOf(h)
  \/ \E h \in RefHandles, h2 \in RefHandles : CopyRef(h, h2)
  \/ \E h \in RefHandles : DropRef(h)
  \/ \E h \in RefHandles : Get(h)
  \/ \E h \in RefHandles, y \in RefValues : Set(h, y)

SpecRef == Init /\ [][NextRef]_vars

\* ---------------------------------------------------------------------------
\* namespace action1, for T = Number.  A closure's call is recorded in invoked.
\* ---------------------------------------------------------------------------

\* if (a) a(arg)
action1_run(a, arg, log) ==
  IF a.target # 0 THEN Append(log, [target |-> a.target, arg |-> arg]) ELSE log

\* if (a) return true; else return false
action1_is_invalid(a) == IF a.target # 0 THEN TRUE ELSE FALSE

Action1Run(a, arg) ==
  /\ Running
  /\ Len(invoked) < MaxInvoked
  /\ invoked' = action1_run(a, arg, invoked)
  /\ actCall' = [op |-> "run", a |-> a, arg |-> arg, retB |-> FALSE, pre |-> invoked]
  /\ UNCHANGED <<regVars, lastDispatch, collVars, panicCode, refHandles, cells, refCall>>

Action1IsInvalid(a) ==
  /\ Running
  /\ actCall' = [op |-> "is_invalid", a |-> a, arg |-> 0,
                 retB |-> action1_is_invalid(a), pre |-> invoked]
  /\ UNCHANGED <<regVars, lastDispatch, collVars, panicCode, refHandles, cells, refCall,
                 invoked>>

NextAct ==
  \/ \E a \in Action1s, arg \in Payloads : Action1Run(a, arg)
  \/ \E a \in Action1s : Action1IsInvalid(a)

SpecAct == Init /\ [][NextAct]_vars

Next == NextReg \/ NextColl \/ NextRef \/ NextAct

Spec == Init /\ [][Next]_vars

\* ---------------------------------------------------------------------------
\* Properties of the handler registry (checked under SpecReg)
\* ---------------------------------------------------------------------------

\* the operations of the current or last registerWithDal, in order
LogOps == [i \in 1..Len(regLog) |-> regLog[i].op]

LogEntry(op, a) == [op |-> op, adapter |-> a]

\* C1: in every state, also inside a registration, at most one adapter is
\* attached at the bus for each key; a re-registration ignores the adapter
\* the table holds before it listens with the new one; and when a
\* registration has completed, the one adapter attached for the key is the
\* adapter stored in handlersMap.
C1_OneAdapterPerKey ==
  /\ \A k \in Keys : Cardinality(bus[k]) <= 1
  /\ (pc # "idle" /\ old_adapter # 0) =>
        (regKey \in DOMAIN handlersMap /\ handlersMap[regKey] = old_adapter)
  /\ \A i \in 1..Len(regLog) :
        (regLog[i].op = "listen" /\ old_adapter # 0) =>
           \E j \in 1..(i - 1) : regLog[j] = LogEntry("ignore", old_adapter)
  /\ pc = "idle" => \A k \in DOMAIN handlersMap : bus[k] = {handlersMap[k]}
  /\ (pc = "idle" /\ NotNull(regF)) =>
        (regKey \in DOMAIN handlersMap /\ handlersMap[regKey] = new_adapter)

\* a second registration for a key has completed
C1_Witness ==
  /\ pc = "idle"
  /\ NotNull(regF)
  /\ old_adapter # 0
  /\ bus[regKey] = {new_adapter}
  /\ handlersMap[regKey] = new_adapter
  /\ new_adapter # old_adapter

\* C2: no adapter attached at the bus has been freed, so no delivery, at
\* whatever point of registerWithDal it comes, runs a freed adapter.
C2_AttachedAdaptersAlive ==
  /\ \A k \in Keys : bus[k] \subseteq DOMAIN heap
  /\ \A c \in lastDispatch.calls : ~c.call.dangling

\* an old adapter was freed by a replacement, and the bus has delivered an
\* event for that key to the new adapter
C2_Witness ==
  /\ pc = "idle"
  /\ old_adapter # 0
  /\ old_adapter \notin DOMAIN heap
  /\ lastDispatch.key = regKey
  /\ \E c \in lastDispatch.calls : c.adapter = new_adapter /\ c.call.fn = regF

\* C3 as stated: a replacement runs detach old, free old, construct new,
\* attach new, store new, in this order.
C3_FreeBeforeConstruct ==
  (pc = "idle" /\ old_adapter # 0) =>
     LogOps = <<"ignore", "free", "construct", "listen", "store">>

\* C3 as the code has it: a replacement detaches the old adapter, constructs
\* the new one, attaches it, and stores it in the table; the store is what
\* frees the old adapter, which is alive until then.
C3_FreeAtStore ==
  /\ (pc = "idle" /\ old_adapter # 0) =>
        regLog = <<LogEntry("ignore", old_adapter),
                   LogEntry("construct", new_adapter),
                   LogEntry("listen", new_adapter),
                   LogEntry("store", new_adapter),
                   LogEntry("free", old_adapter)>>
  /\ (pc \in {"ignore", "new", "listen", "store"} /\ old_adapter # 0) =>
        /\ old_adapter \in DOMAIN heap
        /\ LogOps = CASE pc = "ignore" -> <<>>
                      [] pc = "new" -> <<"ignore">>
                      [] pc = "listen" -> <<"ignore", "construct">>
                      [] pc = "store" -> <<"ignore", "construct", "listen">>

\* a replacement has completed and the old adapter's address is free again
C3_Witness ==
  /\ pc = "idle"
  /\ old_adapter # 0
  /\ Len(regLog) = 5
  /\ old_adapter \notin DOMAIN heap
  /\ new_adapter \in DOMAIN heap

\* C4: a call of registerWithDal with an empty handler makes no bus call,
\* leaves handlersMap, the bus and the adapters unchanged and raises no
\* fatal signal, so every installed adapter stays attached.
C4_NullHandlerNoOp ==
  [][(pc = "idle" /\ pc' = "idle" /\ ~NotNull(regF')) =>
        /\ UNCHANGED <<handlersMap, bus, heap, panicCode>>
        /\ regLog' = <<>>
        /\ \A k \in DOMAIN handlersMap' :
              bus'[k] = {handlersMap'[k]} /\ handlersMap'[k] \in DOMAIN heap']_vars

\* an empty handler was registered for a key that has a handler, and an
\* event for that key still reaches the installed adapter
C4_Witness ==
  /\ pc = "idle"
  /\ ~NotNull(regF)
  /\ regKey \in DOMAIN handlersMap
  /\ bus[regKey] = {handlersMap[regKey]}
  /\ lastDispatch.key = regKey
  /\ \E c \in lastDispatch.calls : c.adapter = handlersMap[regKey]

\* C5: an adapter wraps the closure it was constructed from, which is not
\* empty and has one of the two shapes; a delivery runs each attached adapter
\* once, on that closure: a void(int) closure gets the event's payload, a
\* void() closure no argument.
C5_RunInvokesWrappedClosure ==
  [][/\ pc' \in {"listen", "store"} =>
           (new_adapter' \in DOMAIN heap' /\ heap'[new_adapter'] = regF')
     /\ \A a \in DOMAIN heap' : NotNull(heap'[a]) /\ heap'[a].shape \in Shapes
     /\ lastDispatch' # lastDispatch =>
           /\ {c.adapter : c \in lastDispatch'.calls} = bus[lastDispatch'.key]
           /\ Cardinality(lastDispatch'.calls) = Cardinality(bus[lastDispatch'.key])
           /\ \A c \in lastDispatch'.calls :
                 /\ c.adapter \in DOMAIN heap
                 /\ c.call.fn = heap[c.adapter]
                 /\ c.call.fn.shape = "Action1" => c.call.args = <<lastDispatch'.payload>>
                 /\ c.call.fn.shape = "Action" => c.call.args = <<>>]_vars

\* a void(int) closure was invoked with a payload other than 0
C5_Witness ==
  /\ lastDispatch.payload = MaxPayload
  /\ \E c \in lastDispatch.calls :
        c.call.fn.shape = "Action1" /\ c.call.args = <<MaxPayload>>

\* ---------------------------------------------------------------------------
\* Properties of the collection library (checked under SpecColl)
\* ---------------------------------------------------------------------------

\* C6: a container from create::collection_of has count 0; add on a valid
\* container makes count one larger, puts the element at the last index and
\* keeps every element stored before at its index.
C6_CreateEmptyAddAppends ==
  /\ call.op = "collection_of" =>
        /\ coll.valid
        /\ count(coll).signal = 0
        /\ count(coll).retN = 0
  /\ (call.op = "add" /\ call.pre.valid) =>
        /\ call.signal = 0
        /\ coll.valid
        /\ count(coll).retN = count(call.pre).retN + 1
        /\ coll.items[Len(coll.items)] = call.v
        /\ \A i \in 1..Len(call.pre.items) : coll.items[i] = call.pre.items[i]

\* an element was added to a container holding two
C6_Witness ==
  /\ call.op = "add"
  /\ call.pre.valid
  /\ Len(call.pre.items) = 2
  /\ Len(coll.items) = 3
  /\ call.v # call.pre.items[1]

\* C7: at on an uninitialized handle raises UninitializedObject; on a valid
\* container it raises OutOfBounds for an index outside [0, count) and
\* otherwise returns the element stored at the index; the container is
\* unchanged.
C7_AtChecked ==
  call.op = "at" =>
     /\ coll = call.pre
     /\ ~call.pre.valid => call.signal = TD_UNINITIALIZED_OBJECT_TYPE
     /\ (call.pre.valid /\ (call.x < 0 \/ call.x >= Len(call.pre.items))) =>
           call.signal = TD_OUT_OF_BOUNDS
     /\ (call.pre.valid /\ 0 <= call.x /\ call.x < Len(call.pre.items)) =>
           /\ call.signal = 0
           /\ call.retN = call.pre.items[call.x + 1]
     /\ panicCode = call.signal

\* at(1) on the container <<10, 20, 30>> returned 20
C7_Witness ==
  /\ call.op = "at"
  /\ call.pre.valid
  /\ call.pre.items = <<10, 20, 30>>
  /\ call.x = 1
  /\ call.retN = 20
  /\ call.signal = 0

\* C8: on a valid container in_range(c, x) is true exactly when
\* 0 <= x < count(c), for negative x and x = count too, and c is unchanged.
C8_InRange ==
  (call.op = "in_range" /\ call.pre.valid) =>
     /\ call.signal = 0
     /\ coll = call.pre
     /\ call.retB = (call.x \in 0..(count(call.pre).retN - 1))

\* in_range was asked for x = count on a container that is not empty
C8_Witness ==
  /\ call.op = "in_range"
  /\ call.pre.valid
  /\ Len(call.pre.items) > 0
  /\ call.x = Len(call.pre.items)
  /\ ~call.retB

\* C9: remove_at on a valid container with x out of range changes nothing
\* and raises nothing; with x in range the length drops by one, the elements
\* below x stay and every element above x moves down by one.
C9_RemoveAt ==
  (call.op = "remove_at" /\ call.pre.valid) =>
     /\ call.signal = 0
     /\ coll.valid
     /\ (call.x < 0 \/ call.x >= Len(call.pre.items)) => coll = call.pre
     /\ (0 <= call.x /\ call.x < Len(call.pre.items)) =>
           /\ Len(coll.items) = Len(call.pre.items) - 1
           /\ \A i \in 0..(call.x - 1) : coll.items[i + 1] = call.pre.items[i + 1]
           /\ \A i \in (call.x + 1)..(Len(call.pre.items) - 1) :
                 coll.items[i] = call.pre.items[i + 1]

\* removeAt(1) on <<10, 20, 30>> left <<10, 30>>
C9_Witness ==
  /\ call.op = "remove_at"
  /\ call.pre.items = <<10, 20, 30>>
  /\ call.x = 1
  /\ coll.items = <<10, 30>>

\* the indices >= start at which the container holds v
Matches(items, v, start) ==
  {i \in start..(Len(items) - 1) : items[i + 1] = v}

\* C10: index_of on a valid container returns -1 for start outside
\* [0, count); otherwise the highest index >= start holding x, or -1 if there
\* is none; the container is unchanged.
C10_IndexOfLast ==
  (call.op = "index_of" /\ call.pre.valid) =>
     /\ call.signal = 0
     /\ coll = call.pre
     /\ (call.x < 0 \/ call.x >= Len(call.pre.items)) => call.retN = 0 - 1
     /\ (0 <= call.x /\ call.x < Len(call.pre.items)) =>
           LET M == Matches(call.pre.items, call.v, call.x) IN
             /\ M = {} => call.retN = 0 - 1
             /\ M # {} => (call.retN \in M /\ \A i \in M : i <= call.retN)

\* two elements at or after start match, and the later one is returned
C10_Witness ==
  /\ call.op = "index_of"
  /\ call.pre.valid
  /\ call.x >= 1
  /\ Cardinality(Matches(call.pre.items, call.v, call.x)) >= 2
  /\ call.retN = Len(call.pre.items) - 1

\* C11: set_at on a valid container with x out of range changes nothing and
\* raises nothing, where at raises OutOfBounds; with x in range it makes
\* c[x] equal y, keeps the length and every other element.
C11_SetAt ==
  (call.op = "set_at" /\ call.pre.valid) =>
     /\ call.signal = 0
     /\ coll.valid
     /\ (call.x < 0 \/ call.x >= Len(call.pre.items)) =>
           /\ coll = call.pre
           /\ at(call.pre, call.x).signal = TD_OUT_OF_BOUNDS
     /\ (0 <= call.x /\ call.x < Len(call.pre.items)) =>
           /\ Len(coll.items) = Len(call.pre.items)
           /\ coll.items[call.x + 1] = call.v
           /\ \A i \in 1..Len(call.pre.items) :
                 i # call.x + 1 => coll.items[i] = call.pre.items[i]

\* setAt(1, 30) turned <<10, 20, 30>> into <<10, 30, 30>>
C11_Witness ==
  /\ call.op = "set_at"
  /\ call.pre.items = <<10, 20, 30>>
  /\ call.x = 1
  /\ call.v = 30
  /\ coll.items = <<10, 30, 30>>

\* the indices at which the container holds v
Occurrences(items, v) == {i \in 0..(Len(items) - 1) : items[i + 1] = v}

\* the sequence without the element at the 0-based index i
Without(items, i) == SubSeq(items, 1, i) \o SubSeq(items, i + 2, Len(items))

FirstOf(S) == CHOOSE i \in S : \A j \in S : i <= j
LastOf(S) == CHOOSE i \in S : \A j \in S : j <= i

\* C12 as stated: remove takes out one occurrence of x, the first one
\* scanning from index 0, and changes nothing when x does not occur.
C12_RemoveFirstOccurrence ==
  (call.op = "remove" /\ call.pre.valid) =>
     /\ call.signal = 0
     /\ Occurrences(call.pre.items, call.v) = {} => coll = call.pre
     /\ Occurrences(call.pre.items, call.v) # {} =>
           coll.items = Without(call.pre.items, FirstOf(Occurrences(call.pre.items, call.v)))

\* C12 as the code has it: remove takes out one occurrence of x, the one at
\* the index index_of(c, x, 0) returns, which is the last occurrence; when x
\* does not occur it changes nothing and raises nothing.
C12_RemoveLastOccurrence ==
  (call.op = "remove" /\ call.pre.valid) =>
     /\ call.signal = 0
     /\ coll.valid
     /\ Occurrences(call.pre.items, call.v) = {} => coll = call.pre
     /\ Occurrences(call.pre.items, call.v) # {} =>
           /\ index_of(call.pre, call.v, 0).retN = LastOf(Occurrences(call.pre.items, call.v))
           /\ coll.items = Without(call.pre.items, LastOf(Occurrences(call.pre.items, call.v)))
           /\ Len(coll.items) = Len(call.pre.items) - 1

\* remove(10) on <<10, 20, 10>> left <<10, 20>>
C12_Witness ==
  /\ call.op = "remove"
  /\ call.pre.items = <<10, 20, 10>>
  /\ call.v = 10
  /\ coll.items = <<10, 20>>

CollectionOps ==
  {"count", "add", "in_range", "at", "remove_at", "set_at", "index_of", "remove"}

\* C14: every collection function called on an uninitialized handle raises
\* UninitializedObject and leaves the handle as it was, remove_at and set_at
\* included.
C14_UninitializedAlwaysFatal ==
  (call.op \in CollectionOps /\ ~call.pre.valid) =>
     /\ call.signal = TD_UNINITIALIZED_OBJECT_TYPE
     /\ panicCode = TD_UNINITIALIZED_OBJECT_TYPE
     /\ coll = call.pre

\* remove_at was called on an uninitialized handle
C14_Witness ==
  /\ call.op = "remove_at"
  /\ ~call.pre.valid
  /\ call.signal = TD_UNINITIALIZED_OBJECT_TYPE

\* C15: a container from the factory stays valid under every operation;
\* UninitializedObject is never raised on it, and the only fatal signal is
\* OutOfBounds, raised by at alone, for an index outside [0, count).
C15_ValidStaysValid ==
  /\ call.op = "collection_of" => (coll.valid /\ call.signal = 0)
  /\ (call.op \in CollectionOps /\ call.pre.valid) =>
        /\ coll.valid
        /\ call.signal \in {0, TD_OUT_OF_BOUNDS}
        /\ call.signal = TD_OUT_OF_BOUNDS =>
              /\ call.op = "at"
              /\ (call.x < 0 \/ call.x >= Len(call.pre.items))
  /\ panicCode = TD_UNINITIALIZED_OBJECT_TYPE => ~call.pre.valid

\* at has raised OutOfBounds on a valid container that is not empty
C15_Witness ==
  /\ call.op = "at"
  /\ call.pre.valid
  /\ Len(call.pre.items) = 2
  /\ call.x = 2
  /\ panicCode = TD_OUT_OF_BOUNDS
  /\ coll.valid

\* ---------------------------------------------------------------------------
\* Properties of Ref (checked under SpecRef)
\* ---------------------------------------------------------------------------

\* the Ref variables that hold the cell c
Holders(c) == {h \in RefHandles : refHandles[h] = c}

\* C13: a cell from create::ref_of reads as the default value 0; after a _set
\* through any handle, _get through every handle of the cell returns the
\* value set, until the next _set; a _get returns the cell's value and
\* changes nothing; no operation raises a fatal signal.
C13_GetReturnsLastSet ==
  /\ panicCode = 0
  /\ \A h \in RefHandles : refHandles[h] # 0 => refHandles[h] \in DOMAIN cells
  /\ \A c \in DOMAIN cells : cells[c].ref = Cardinality(Holders(c))
  /\ refCall.op = "ref_of" =>
        /\ _get(cells, refHandles[refCall.h]) = 0
        /\ refHandles[refCall.h] \notin DOMAIN refCall.pre
        /\ \A c \in DOMAIN refCall.pre : cells[c] = refCall.pre[c]
  /\ refCall.op = "_set" =>
        /\ refHandles = refCall.preHandles
        /\ \A h \in Holders(refHandles[refCall.h]) :
              _get(cells, refHandles[h]) = refCall.v
        /\ \A c \in DOMAIN cells :
              c # refHandles[refCall.h] => cells[c] = refCall.pre[c]
  /\ refCall.op = "_get" =>
        /\ refCall.ret = refCall.pre[refCall.preHandles[refCall.h]].val
        /\ cells = refCall.pre
        /\ refHandles = refCall.preHandles
  /\ refCall.op \in {"copy", "drop"} =>
        \A c \in DOMAIN cells : c \in DOMAIN refCall.pre /\ cells[c].val = refCall.pre[c].val

\* a value other than the default is read through one of two handles of a cell
C13_Witness ==
  /\ refCall.op = "_get"
  /\ refCall.ret = MaxValue
  /\ Cardinality(Holders(refHandles[refCall.h])) >= 2

\* ---------------------------------------------------------------------------
\* More properties of the handler registry (checked under SpecReg)
\* ---------------------------------------------------------------------------

\* C16: between registrations, an event delivered for a key invokes one
\* handler, once: the closure of the last completed registration for the key
\* with a non-empty handler, and no handler when there was none.
C16_LatestHandlerRuns ==
  [][/\ pc' = "idle" =>
           \A k \in Keys : NotNull(registered'[k]) =>
              /\ k \in DOMAIN handlersMap'
              /\ bus'[k] = {handlersMap'[k]}
              /\ handlersMap'[k] \in DOMAIN heap'
              /\ heap'[handlersMap'[k]] = registered'[k]
     /\ (lastDispatch' # lastDispatch /\ pc = "idle") =>
           IF NotNull(registered[lastDispatch'.key])
             THEN /\ Cardinality(lastDispatch'.calls) = 1
                  /\ \A c \in lastDispatch'.calls :
                        /\ c.call.fn = registered[lastDispatch'.key]
                        /\ ~c.call.dangling
             ELSE lastDispatch'.calls = {}]_vars

\* after a replacement by a different closure, an event reached the new one
C16_Witness ==
  /\ pc = "idle"
  /\ old_adapter # 0
  /\ NotNull(regF)
  /\ registered[regKey] = regF
  /\ lastDispatch.key = regKey
  /\ \E c \in lastDispatch.calls :
        c.adapter = handlersMap[regKey] /\ c.call.fn = regF /\ c.call.fn.target = NumFns

\* C17: once a registration with a non-empty handler has completed for a key,
\* every state outside a registration has a table entry for the key and one
\* adapter attached for it, whatever registrations follow.
C17_HandlerNeverRemoved ==
  pc = "idle" =>
     \A k \in Keys : NotNull(registered[k]) =>
        (k \in DOMAIN handlersMap /\ Cardinality(bus[k]) = 1)

\* both keys have a handler, and the last call passed an empty handler
C17_Witness ==
  /\ pc = "idle"
  /\ ~NotNull(regF)
  /\ \A k \in Keys : NotNull(registered[k]) /\ Cardinality(bus[k]) = 1

\* the adapters that receive an event for the key under replacement
ReplacementListeners(p, old, new) ==
  CASE p = "ignore" -> {old}
    [] p \in {"new", "listen"} -> {}
    [] p = "store" -> {new}

\* C18: while a key's handler is being replaced, an event for the key reaches
\* the old handler before the ignore, no handler between the ignore and the
\* listen, and the new handler alone once listen has returned, before the
\* table entry is stored; never both.
C18_DeliveryDuringReplacement ==
  [][/\ (pc' # "idle" /\ old_adapter' # 0) =>
           /\ bus'[regKey'] = ReplacementListeners(pc', old_adapter', new_adapter')
           /\ heap'[old_adapter'] = registered'[regKey']
           /\ pc' = "store" => heap'[new_adapter'] = regF'
     /\ (lastDispatch' # lastDispatch /\ pc # "idle" /\ old_adapter # 0
           /\ lastDispatch'.key = regKey) =>
           /\ Cardinality(lastDispatch'.calls) <= 1
           /\ {c.adapter : c \in lastDispatch'.calls} =
                 ReplacementListeners(pc, old_adapter, new_adapter)
           /\ \A c \in lastDispatch'.calls :
                 /\ ~c.call.dangling
                 /\ c.call.fn = IF pc = "ignore" THEN registered[regKey] ELSE regF]_vars

\* an event reached the new handler, which differs from the old one, before
\* the table entry was stored
C18_Witness ==
  /\ pc = "store"
  /\ old_adapter # 0
  /\ regF # registered[regKey]
  /\ lastDispatch.key = regKey
  /\ \E c \in lastDispatch.calls : c.adapter = new_adapter /\ c.call.fn = regF
  /\ Cardinality(lastDispatch.calls) = 1

\* C19: no step of registerWithDal for a key changes, for any other key, the
\* adapters attached at the bus, the table entry, or the adapter behind it.
C19_OtherKeysUntouched ==
  [][\A k \in Keys : k # regKey' =>
        /\ bus'[k] = bus[k]
        /\ (k \in DOMAIN handlersMap') = (k \in DOMAIN handlersMap)
        /\ k \in DOMAIN handlersMap =>
              /\ handlersMap'[k] = handlersMap[k]
              /\ handlersMap[k] \in DOMAIN heap'
              /\ heap'[handlersMap[k]] = heap[handlersMap[k]]]_vars

\* a key's handler was replaced while the other key has its handler attached
C19_Witness ==
  /\ pc = "idle"
  /\ old_adapter # 0
  /\ \E k \in Keys :
        /\ k # regKey
        /\ k \in DOMAIN handlersMap
        /\ bus[k] = {handlersMap[k]}
        /\ heap[handlersMap[k]] = registered[k]

\* ---------------------------------------------------------------------------
\* Properties of action1 (checked under SpecAct)
\* ---------------------------------------------------------------------------

\* C20: is_invalid(a) is true exactly when a is empty, that is, exactly when
\* run(a, arg) invokes nothing.
C20_IsInvalidIffEmpty ==
  /\ actCall.op = "is_invalid" =>
        /\ actCall.retB = (actCall.a.target = 0)
        /\ actCall.retB = (action1_run(actCall.a, 0, <<>>) = <<>>)
  /\ actCall.op = "run" =>
        invoked = IF actCall.a.target = 0
                    THEN actCall.pre
                    ELSE Append(actCall.pre, [target |-> actCall.a.target, arg |-> actCall.arg])

====
